---------------------------- MODULE Spec2Model ----------------------------
(***************************************************************************)
(* A model of src/src/main.rs: the line classifier is_book_line and the    *)
(* document assembler parse_gutenberg of the KJV Project Gutenberg parser. *)
(*                                                                         *)
(* Text.  A Rust string is modelled as a sequence of chunks.  A chunk is   *)
(* an atomic run of characters: a whitespace character (SP, TAB), a colon, *)
(* a sign, a run of decimal digits, or a run of other non-whitespace       *)
(* characters (a word or a punctuation mark).  The string is the           *)
(* concatenation of its chunks, so trim, contains, starts_with,            *)
(* split_whitespace, split_once and join are computed on chunk sequences   *)
(* exactly as the standard library computes them on characters.            *)
(*                                                                         *)
(* Option<T> is modelled as a sequence of length 0 (None) or 1 (Some).     *)
(***************************************************************************)
EXTENDS Naturals, Sequences, FiniteSets

None == <<>>

Some(x) == <<x>>

SP == " "

TAB == "\t"

Whitespace == {SP, TAB}

(***************************************************************************)
(* String primitives of the standard library, on chunk sequences.          *)
(***************************************************************************)

\* str::trim_start
RECURSIVE TrimStart(_)
TrimStart(s) ==
  IF s # <<>> /\ Head(s) \in Whitespace THEN TrimStart(Tail(s)) ELSE s

\* str::trim_end
RECURSIVE TrimEnd(_)
TrimEnd(s) ==
  IF s # <<>> /\ s[Len(s)] \in Whitespace
  THEN TrimEnd(SubSeq(s, 1, Len(s) - 1))
  ELSE s

\* str::trim
Trim(s) == TrimEnd(TrimStart(s))

\* str::starts_with
StartsWith(s, prefix) ==
  /\ Len(prefix) <= Len(s)
  /\ \A i \in 1..Len(prefix) : s[i] = prefix[i]

\* str::contains
Contains(s, pat) ==
  \E k \in 0..(Len(s) - Len(pat)) : \A i \in 1..Len(pat) : s[k + i] = pat[i]

\* str::split_whitespace, collected: the maximal runs of non-whitespace chunks
RECURSIVE SplitWhitespace(_)
SplitWhitespace(s) ==
  LET t == TrimStart(s)
      n == IF \E k \in 1..Len(t) : t[k] \in Whitespace
           THEN (CHOOSE k \in 1..Len(t) :
                   /\ t[k] \in Whitespace
                   /\ \A j \in 1..(k - 1) : t[j] \notin Whitespace) - 1
           ELSE Len(t)
  IN IF t = <<>> THEN <<>>
     ELSE <<SubSeq(t, 1, n)>> \o SplitWhitespace(SubSeq(t, n + 1, Len(t)))

\* [&str]::join(" ")
RECURSIVE JoinSpace(_)
JoinSpace(words) ==
  IF words = <<>> THEN <<>>
  ELSE IF Len(words) = 1 THEN words[1]
  ELSE words[1] \o <<SP>> \o JoinSpace(Tail(words))

(***************************************************************************)
(* The line classifier.                                                    *)
(***************************************************************************)

\* The one-word titles matched as whole lines (match line { ... })
bare_books ==
  << [title |-> <<"Hosea">>,
      canonical |-> "Hosea"],
     [title |-> <<"Joel">>,
      canonical |-> "Joel"],
     [title |-> <<"Amos">>,
      canonical |-> "Amos"],
     [title |-> <<"Obadiah">>,
      canonical |-> "Obadiah"],
     [title |-> <<"Jonah">>,
      canonical |-> "Jonah"],
     [title |-> <<"Micah">>,
      canonical |-> "Micah"],
     [title |-> <<"Nahum">>,
      canonical |-> "Nahum"],
     [title |-> <<"Habakkuk">>,
      canonical |-> "Habakkuk"],
     [title |-> <<"Zephaniah">>,
      canonical |-> "Zephaniah"],
     [title |-> <<"Haggai">>,
      canonical |-> "Haggai"],
     [title |-> <<"Zechariah">>,
      canonical |-> "Zechariah"],
     [title |-> <<"Malachi">>,
      canonical |-> "Malachi"],
     [title |-> <<"Ezra">>,
      canonical |-> "Ezra"],
     [title |-> <<"Ecclesiastes">>,
      canonical |-> "Ecclesiastes"] >>

\* let ot_books = [...]
ot_books ==
  << [prefix |-> <<"The", " ", "First", " ", "Book", " ", "of", " ", "Moses", ":">>,
      canonical |-> "Genesis"],
     [prefix |-> <<"The", " ", "Second", " ", "Book", " ", "of", " ", "Moses", ":">>,
      canonical |-> "Exodus"],
     [prefix |-> <<"The", " ", "Third", " ", "Book", " ", "of", " ", "Moses", ":">>,
      canonical |-> "Leviticus"],
     [prefix |-> <<"The", " ", "Fourth", " ", "Book", " ", "of", " ", "Moses", ":">>,
      canonical |-> "Numbers"],
     [prefix |-> <<"The", " ", "Fifth", " ", "Book", " ", "of", " ", "Moses", ":">>,
      canonical |-> "Deuteronomy"],
     [prefix |-> <<"The", " ", "Book", " ", "of", " ", "Joshua">>,
      canonical |-> "Joshua"],
     [prefix |-> <<"The", " ", "Book", " ", "of", " ", "Judges">>,
      canonical |-> "Judges"],
     [prefix |-> <<"The", " ", "Book", " ", "of", " ", "Ruth">>,
      canonical |-> "Ruth"],
     [prefix |-> <<"The", " ", "First", " ", "Book", " ", "of", " ", "the", " ", "Chronicles">>,
      canonical |-> "1 Chronicles"],
     [prefix |-> <<"The", " ", "Second", " ", "Book", " ", "of", " ", "the", " ", "Chronicles">>,
      canonical |-> "2 Chronicles"],
     [prefix |-> <<"The", " ", "Book", " ", "of", " ", "Nehemiah">>,
      canonical |-> "Nehemiah"],
     [prefix |-> <<"The", " ", "Book", " ", "of", " ", "Esther">>,
      canonical |-> "Esther"],
     [prefix |-> <<"The", " ", "Book", " ", "of", " ", "Job">>,
      canonical |-> "Job"],
     [prefix |-> <<"The", " ", "Book", " ", "of", " ", "Psalms">>,
      canonical |-> "Psalms"],
     [prefix |-> <<"The", " ", "Proverbs">>,
      canonical |-> "Proverbs"],
     [prefix |-> <<"The", " ", "Song", " ", "of", " ", "Solomon">>,
      canonical |-> "Song of Solomon"],
     [prefix |-> <<"The", " ", "Book", " ", "of", " ", "the", " ", "Prophet", " ", "Isaiah">>,
      canonical |-> "Isaiah"],
     [prefix |-> <<"The", " ", "Book", " ", "of", " ", "the", " ", "Prophet", " ", "Jeremiah">>,
      canonical |-> "Jeremiah"],
     [prefix |-> <<"The", " ", "Lamentations", " ", "of", " ", "Jeremiah">>,
      canonical |-> "Lamentations"],
     [prefix |-> <<"The", " ", "Book", " ", "of", " ", "the", " ", "Prophet", " ", "Ezekiel">>,
      canonical |-> "Ezekiel"],
     [prefix |-> <<"The", " ", "Book", " ", "of", " ", "Daniel">>,
      canonical |-> "Daniel"] >>

\* let nt_books = [...]
nt_books ==
  << [prefix |-> <<"The", " ", "Gospel", " ", "According", " ", "to", " ", "Saint", " ", "Matthew">>,
      canonical |-> "Matthew"],
     [prefix |-> <<"The", " ", "Gospel", " ", "According", " ", "to", " ", "Saint", " ", "Mark">>,
      canonical |-> "Mark"],
     [prefix |-> <<"The", " ", "Gospel", " ", "According", " ", "to", " ", "Saint", " ", "Luke">>,
      canonical |-> "Luke"],
     [prefix |-> <<"The", " ", "Gospel", " ", "According", " ", "to", " ", "Saint", " ", "John">>,
      canonical |-> "John"],
     [prefix |-> <<"The", " ", "Acts", " ", "of", " ", "the", " ", "Apostles">>,
      canonical |-> "Acts"],
     [prefix |-> <<"The", " ", "Epistle", " ", "of", " ", "Paul", " ", "the", " ", "Apostle", " ", "to", " ", "the", " ", "Romans">>,
      canonical |-> "Romans"],
     [prefix |-> <<"The", " ", "First", " ", "Epistle", " ", "of", " ", "Paul", " ", "the", " ", "Apostle", " ", "to", " ", "the", " ", "Corinthians">>,
      canonical |-> "1 Corinthians"],
     [prefix |-> <<"The", " ", "Second", " ", "Epistle", " ", "of", " ", "Paul", " ", "the", " ", "Apostle", " ", "to", " ", "the", " ", "Corinthians">>,
      canonical |-> "2 Corinthians"],
     [prefix |-> <<"The", " ", "Epistle", " ", "of", " ", "Paul", " ", "the", " ", "Apostle", " ", "to", " ", "the", " ", "Galatians">>,
      canonical |-> "Galatians"],
     [prefix |-> <<"The", " ", "Epistle", " ", "of", " ", "Paul", " ", "the", " ", "Apostle", " ", "to", " ", "the", " ", "Ephesians">>,
      canonical |-> "Ephesians"],
     [prefix |-> <<"The", " ", "Epistle", " ", "of", " ", "Paul", " ", "the", " ", "Apostle", " ", "to", " ", "the", " ", "Philippians">>,
      canonical |-> "Philippians"],
     [prefix |-> <<"The", " ", "Epistle", " ", "of", " ", "Paul", " ", "the", " ", "Apostle", " ", "to", " ", "the", " ", "Colossians">>,
      canonical |-> "Colossians"],
     [prefix |-> <<"The", " ", "First", " ", "Epistle", " ", "of", " ", "Paul", " ", "the", " ", "Apostle", " ", "to", " ", "the", " ", "Thessalonians">>,
      canonical |-> "1 Thessalonians"],
     [prefix |-> <<"The", " ", "Second", " ", "Epistle", " ", "of", " ", "Paul", " ", "the", " ", "Apostle", " ", "to", " ", "the", " ", "Thessalonians">>,
      canonical |-> "2 Thessalonians"],
     [prefix |-> <<"The", " ", "First", " ", "Epistle", " ", "of", " ", "Paul", " ", "the", " ", "Apostle", " ", "to", " ", "Timothy">>,
      canonical |-> "1 Timothy"],
     [prefix |-> <<"The", " ", "Second", " ", "Epistle", " ", "of", " ", "Paul", " ", "the", " ", "Apostle", " ", "to", " ", "Timothy">>,
      canonical |-> "2 Timothy"],
     [prefix |-> <<"The", " ", "Epistle", " ", "of", " ", "Paul", " ", "the", " ", "Apostle", " ", "to", " ", "Titus">>,
      canonical |-> "Titus"],
     [prefix |-> <<"The", " ", "Epistle", " ", "of", " ", "Paul", " ", "the", " ", "Apostle", " ", "to", " ", "Philemon">>,
      canonical |-> "Philemon"],
     [prefix |-> <<"The", " ", "Epistle", " ", "of", " ", "Paul", " ", "the", " ", "Apostle", " ", "to", " ", "the", " ", "Hebrews">>,
      canonical |-> "Hebrews"],
     [prefix |-> <<"The", " ", "General", " ", "Epistle", " ", "of", " ", "James">>,
      canonical |-> "James"],
     [prefix |-> <<"The", " ", "First", " ", "Epistle", " ", "General", " ", "of", " ", "Peter">>,
      canonical |-> "1 Peter"],
     [prefix |-> <<"The", " ", "Second", " ", "General", " ", "Epistle", " ", "of", " ", "Peter">>,
      canonical |-> "2 Peter"],
     [prefix |-> <<"The", " ", "First", " ", "Epistle", " ", "General", " ", "of", " ", "John">>,
      canonical |-> "1 John"],
     [prefix |-> <<"The", " ", "Second", " ", "Epistle", " ", "General", " ", "of", " ", "John">>,
      canonical |-> "2 John"],
     [prefix |-> <<"The", " ", "Third", " ", "Epistle", " ", "General", " ", "of", " ", "John">>,
      canonical |-> "3 John"],
     [prefix |-> <<"The", " ", "General", " ", "Epistle", " ", "of", " ", "Jude">>,
      canonical |-> "Jude"],
     [prefix |-> <<"The", " ", "Revelation", " ", "of", " ", "Saint", " ", "John", " ", "the", " ", "Divine">>,
      canonical |-> "Revelation"] >>

\* Faulty variant: the words are looked for with their colon
OtherwiseCalledColon == <<"Otherwise", " ", "Called", ":">>

OtherwiseCalled == <<"Otherwise", " ", "Called">>

FirstBookOfSamuel == <<"The", " ", "First", " ", "Book", " ", "of", " ", "Samuel">>

SecondBookOfSamuel == <<"The", " ", "Second", " ", "Book", " ", "of", " ", "Samuel">>

FirstBookOfTheKings ==
  <<"The", " ", "First", " ", "Book", " ", "of", " ", "the", " ", "Kings">>

SecondBookOfTheKings ==
  <<"The", " ", "Second", " ", "Book", " ", "of", " ", "the", " ", "Kings">>

\* Faulty variant: the prefix is looked for anywhere in the line
FirstPrefixMatchAnywhere(line, books) ==
  LET hits == {i \in DOMAIN books : Contains(line, books[i].prefix)}
  IN IF hits = {} THEN 0
     ELSE CHOOSE i \in hits : \A j \in hits : i <= j

\* The first entry, in table order, whose prefix the line starts with (0: none)
FirstPrefixMatch(line, books) ==
  LET hits == {i \in DOMAIN books : StartsWith(line, books[i].prefix)}
  IN IF hits = {} THEN 0
     ELSE CHOOSE i \in hits : \A j \in hits : i <= j

\* fn is_book_line(line: &str) -> Option<(String, bool)>
is_book_line(raw) ==
  LET line == Trim(raw)
      ot_hit == FirstPrefixMatch(line, ot_books)
      nt_hit == FirstPrefixMatch(line, nt_books)
  IN IF Contains(line, OtherwiseCalled) \/ line = <<>> THEN None
     ELSE IF line = FirstBookOfSamuel
       THEN Some([name |-> "1 Samuel", is_old_testament |-> TRUE])
     ELSE IF line = SecondBookOfSamuel
       THEN Some([name |-> "2 Samuel", is_old_testament |-> TRUE])
     ELSE IF \E i \in DOMAIN bare_books : line = bare_books[i].title
       THEN Some([name |-> (bare_books[CHOOSE i \in DOMAIN bare_books :
                                 line = bare_books[i].title]).canonical,
                  is_old_testament |-> TRUE])
     ELSE IF ot_hit # 0
       THEN Some([name |-> ot_books[ot_hit].canonical, is_old_testament |-> TRUE])
     ELSE IF StartsWith(line, FirstBookOfTheKings)
       THEN Some([name |-> "1 Kings", is_old_testament |-> TRUE])
     ELSE IF StartsWith(line, SecondBookOfTheKings)
       THEN Some([name |-> "2 Kings", is_old_testament |-> TRUE])
     ELSE IF nt_hit # 0
       THEN Some([name |-> nt_books[nt_hit].canonical, is_old_testament |-> FALSE])
     ELSE None

(***************************************************************************)
(* Verse reference tokens.                                                 *)
(***************************************************************************)

COLON == ":"

PLUS == "+"

\* The runs of decimal digits that occur in the modelled inputs
DigitRuns == {"1", "2", "3", "01", "99999999999"}

\* Whether a run of digits denotes a value of at most u32::MAX
FitsU32(d) == d # "99999999999"

\* str::parse::<u32>().is_ok(): an optional '+', then digits within range
ParseU32Ok(s) ==
  \/ Len(s) = 1 /\ s[1] \in DigitRuns /\ FitsU32(s[1])
  \/ Len(s) = 2 /\ s[1] = PLUS /\ s[2] \in DigitRuns /\ FitsU32(s[2])

\* Position of the first ':' of a word, 0 when it has none (str::split_once)
ColonAt(word) ==
  IF \E k \in 1..Len(word) : word[k] = COLON
  THEN CHOOSE k \in 1..Len(word) :
         /\ word[k] = COLON
         /\ \A j \in 1..(k - 1) : word[j] # COLON
  ELSE 0

\* word.split_once(':'), the part before the colon
RefChapter(word) == SubSeq(word, 1, ColonAt(word) - 1)

\* word.split_once(':'), the part after the colon
RefVerse(word) == SubSeq(word, ColonAt(word) + 1, Len(word))

\* The test of the scan: split_once succeeds and both parts parse as u32
IsVerseRef(word) ==
  /\ ColonAt(word) # 0
  /\ ParseU32Ok(RefChapter(word))
  /\ ParseU32Ok(RefVerse(word))

\* Index of the first word that is a verse reference, 0 when there is none
\* (the for loop over words.iter().enumerate() with its break)
FirstRef(words) ==
  IF \E i \in 1..Len(words) : IsVerseRef(words[i])
  THEN CHOOSE i \in 1..Len(words) :
         /\ IsVerseRef(words[i])
         /\ \A j \in 1..(i - 1) : ~IsVerseRef(words[j])
  ELSE 0

(***************************************************************************)
(* The assembler: the local state of parse_gutenberg as one record, and    *)
(* one iteration of its loop as ProcessLine.                               *)
(***************************************************************************)

StartMarker ==
  <<"***", " ", "START", " ", "OF", " ", "THE", " ", "PROJECT", " ", "GUTENBERG">>

TheOldTestament == <<"The", " ", "Old", " ", "Testament">>

TheNewTestament == <<"The", " ", "New", " ", "Testament">>

\* The number of Old Testament entries that completes the table of contents
OtTocCount == 39

\* The number of New Testament entries that completes the table of contents
NtTocCount == 27

\* The locals of parse_gutenberg before the loop (bible's four fields included)
InitialState ==
  [ ot_contents |-> <<>>, nt_contents |-> <<>>, ot |-> <<>>, nt |-> <<>>,
    current_book |-> None, is_ot |-> TRUE,
    current_chapter |-> None, current_verse |-> None,
    in_bible |-> FALSE, in_content |-> FALSE, in_toc |-> FALSE,
    toc_is_ot |-> TRUE, toc_complete |-> FALSE,
    found_books |-> {}, last_line_was_book |-> FALSE ]

IsKings(book_name) == book_name = "1 Kings" \/ book_name = "2 Kings"

\* b.name.contains("Samuel"), on the canonical names is_book_line returns
NameContainsSamuel(name) == name \in {"1 Samuel", "2 Samuel"}

\* Faulty variant: the open verse is taken and never pushed
SaveVerseDropped(s) == [s EXCEPT !.current_verse = None]

\* "Save previous verse if exists": take the verse, push it if a chapter is open
SaveVerse(s) ==
  IF s.current_verse = None THEN s
  ELSE [s EXCEPT
          !.current_verse = None,
          !.current_chapter =
            IF s.current_chapter = None THEN None
            ELSE Some([s.current_chapter[1] EXCEPT
                         !.verses = Append(@, s.current_verse[1])])]

\* Faulty variant: the chapter is taken only when a book is open
SaveChapterKeepsOrphan(s) ==
  IF s.current_chapter = None \/ s.current_book = None THEN s
  ELSE [s EXCEPT
          !.current_chapter = None,
          !.current_book =
            Some([s.current_book[1] EXCEPT
                    !.chapters = Append(@, s.current_chapter[1])])]

\* "Save previous chapter if exists": take the chapter, push it if a book is open
SaveChapter(s) ==
  IF s.current_chapter = None THEN s
  ELSE [s EXCEPT
          !.current_chapter = None,
          !.current_book =
            IF s.current_book = None THEN None
            ELSE Some([s.current_book[1] EXCEPT
                         !.chapters = Append(@, s.current_chapter[1])])]

\* "Save previous book if exists": take the book, push it to the testament of is_ot
SaveBook(s) ==
  IF s.current_book = None THEN s
  ELSE IF s.is_ot
    THEN [s EXCEPT !.current_book = None, !.ot = Append(@, s.current_book[1])]
    ELSE [s EXCEPT !.current_book = None, !.nt = Append(@, s.current_book[1])]

\* Faulty variant: the open chapter is not flushed and stays open
AcceptBookKeepsChapter(s, book_name, is_old_testament) ==
  LET f == SaveBook(SaveVerse(s))
  IN [f EXCEPT
        !.found_books = @ \cup {book_name},
        !.current_book = Some([name |-> book_name, chapters |-> <<>>]),
        !.is_ot = is_old_testament,
        !.last_line_was_book = TRUE]

\* Faulty variant: a header of a book already in found_books opens no Book
AcceptBookOnceOnly(s, book_name, is_old_testament) ==
  LET f == SaveBook(SaveChapter(SaveVerse(s)))
  IN IF book_name \in s.found_books THEN s
     ELSE [f EXCEPT
             !.found_books = @ \cup {book_name},
             !.current_book = Some([name |-> book_name, chapters |-> <<>>]),
             !.is_ot = is_old_testament,
             !.last_line_was_book = TRUE]

\* Faulty variant: the previous book is flushed under the new header's flag
AcceptBookFlagFirst(s, book_name, is_old_testament) ==
  LET f == SaveBook(SaveChapter(SaveVerse([s EXCEPT !.is_ot = is_old_testament])))
  IN [f EXCEPT
        !.found_books = @ \cup {book_name},
        !.current_book = Some([name |-> book_name, chapters |-> <<>>]),
        !.last_line_was_book = TRUE]

\* An accepted header: record it, flush verse, chapter and book, open the book
AcceptBook(s, book_name, is_old_testament) ==
  LET f == SaveBook(SaveChapter(SaveVerse(s)))
  IN [f EXCEPT
        !.found_books = @ \cup {book_name},
        !.current_book = Some([name |-> book_name, chapters |-> <<>>]),
        !.is_ot = is_old_testament,
        !.last_line_was_book = TRUE]

\* Faulty variant: the first suppression test never applies
SkipAsSamuelHeaderNever(s, book_name) == FALSE

\* The first suppression test: a Kings title right after an accepted header
SkipAsSamuelHeader(s, book_name) ==
  s.last_line_was_book /\ IsKings(book_name)

\* Faulty variant: the test on the open book is is_none_or, not is_some_and
PreventSwitchNoneOr(s, book_name) ==
  /\ IsKings(book_name)
  /\ (s.current_book = None \/ NameContainsSamuel(s.current_book[1].name))
  /\ s.current_verse = None

\* Faulty variant: the second suppression test never applies
PreventSwitchNever(s, book_name) == FALSE

\* Faulty variant: the second suppression test without the test of the open verse
PreventSwitchAnyVerse(s, book_name) ==
  /\ IsKings(book_name)
  /\ s.current_book # None
  /\ NameContainsSamuel(s.current_book[1].name)

\* The second suppression test: a Kings title while a Samuel book has no verse
PreventSwitch(s, book_name) ==
  /\ IsKings(book_name)
  /\ s.current_book # None
  /\ NameContainsSamuel(s.current_book[1].name)
  /\ s.current_verse = None

\* The message of the second test reads current_book.as_ref().unwrap().name:
\* the unwrap aborts the program when no book is open
UnwrapOfNone(s, book_name) ==
  /\ ~SkipAsSamuelHeader(s, book_name)
  /\ PreventSwitch(s, book_name)
  /\ s.current_book = None

\* Faulty variant: a discarded title still flushes the open verse, chapter
\* and book
BookLineFlushOnSkip(s, book_name, is_old_testament) ==
  IF SkipAsSamuelHeader(s, book_name) \/ PreventSwitch(s, book_name)
  THEN SaveBook(SaveChapter(SaveVerse(s)))
  ELSE AcceptBook(s, book_name, is_old_testament)

\* Faulty variant: a header is accepted only for a name the table of contents listed
BookLineListedOnly(s, book_name, is_old_testament) ==
  IF SkipAsSamuelHeader(s, book_name) THEN s
  ELSE IF PreventSwitch(s, book_name) THEN s
  ELSE IF \A i \in 1..Len(s.ot_contents \o s.nt_contents) :
            (s.ot_contents \o s.nt_contents)[i] # book_name
    THEN s
  ELSE AcceptBook(s, book_name, is_old_testament)

\* The body of "if let Some((book_name, is_old_testament)) = is_book_line(line)"
BookLine(s, book_name, is_old_testament) ==
  IF SkipAsSamuelHeader(s, book_name) THEN s
  ELSE IF PreventSwitch(s, book_name) THEN s
  ELSE AcceptBook(s, book_name, is_old_testament)

\* Faulty variant: the words before the reference are not appended
SealVerseAtRefNoPrefix(s, words, i) ==
  IF s.current_verse = None THEN s
  ELSE [s EXCEPT
          !.current_verse = None,
          !.current_chapter =
            IF s.current_chapter = None THEN None
            ELSE Some([s.current_chapter[1] EXCEPT
                         !.verses = Append(@, s.current_verse[1])])]

\* Faulty variant: the verse is pushed only when words precede the reference
SealVerseAtRefPushInsideIf(s, words, i) ==
  IF s.current_verse = None THEN s
  ELSE
    LET verse == s.current_verse[1]
        sealed ==
          [verse EXCEPT
             !.text = (IF verse.text # <<>> THEN verse.text \o <<SP>>
                       ELSE verse.text)
                      \o JoinSpace(SubSeq(words, 1, i - 1))]
    IN [s EXCEPT
          !.current_verse = None,
          !.current_chapter =
            IF s.current_chapter = None \/ i <= 1 THEN s.current_chapter
            ELSE Some([s.current_chapter[1] EXCEPT
                         !.verses = Append(@, sealed)])]

\* "First, save the previous verse": words before the reference go to its text
SealVerseAtRef(s, words, i) ==
  IF s.current_verse = None THEN s
  ELSE
    LET verse == s.current_verse[1]
        sealed ==
          IF i > 1
          THEN [verse EXCEPT
                  !.text = (IF verse.text # <<>> THEN verse.text \o <<SP>>
                            ELSE verse.text)
                           \o JoinSpace(SubSeq(words, 1, i - 1))]
          ELSE verse
    IN [s EXCEPT
          !.current_verse = None,
          !.current_chapter =
            IF s.current_chapter = None THEN None
            ELSE Some([s.current_chapter[1] EXCEPT
                         !.verses = Append(@, sealed)])]

\* Faulty variant: a new chapter replaces the open one, which is not saved
OpenChapterAtRefNoSave(s, chapter_num) ==
  IF s.current_chapter = None \/ s.current_chapter[1].number # chapter_num
  THEN [s EXCEPT
          !.current_chapter = Some([number |-> chapter_num, verses |-> <<>>])]
  ELSE s

\* Faulty variant: every reference opens a new chapter
OpenChapterAtRefAlways(s, chapter_num) ==
  [SaveChapter(s) EXCEPT
     !.current_chapter = Some([number |-> chapter_num, verses |-> <<>>])]

\* "Check if we need a new chapter"
OpenChapterAtRef(s, chapter_num) ==
  IF s.current_chapter = None \/ s.current_chapter[1].number # chapter_num
  THEN [SaveChapter(s) EXCEPT
          !.current_chapter = Some([number |-> chapter_num, verses |-> <<>>])]
  ELSE s

\* "Start the new verse": its text is the words after the reference
StartVerseAtRef(s, words, i) ==
  [s EXCEPT
     !.current_verse =
       Some([number |-> RefVerse(words[i]),
             text |-> IF i < Len(words)
                      THEN JoinSpace(SubSeq(words, i + 1, Len(words)))
                      ELSE <<>>])]

\* The slices taken at a reference at word i (1-based; the code's index is
\* i - 1): &words[..i - 1] when a verse is open and words come before the
\* reference, &words[i..] when words come after it. A slice whose bound
\* exceeds words.len() aborts the program.
SliceOutOfBounds(s, words, i) ==
  \/ s.current_verse # None /\ i - 1 > 0 /\ i - 1 > Len(words)
  \/ i < Len(words) /\ i > Len(words)

\* A verse reference found at word i (1-based) of the line
VerseRefFound(s, words, i) ==
  StartVerseAtRef(
    OpenChapterAtRef(SealVerseAtRef(s, words, i), RefChapter(words[i])),
    words, i)

\* "If no verse reference found, this is continuation text for current verse"
Continuation(s, line) ==
  IF s.current_verse = None THEN s
  ELSE [s EXCEPT
          !.current_verse =
            Some([s.current_verse[1] EXCEPT
                    !.text = (IF @ # <<>> THEN @ \o <<SP>> ELSE @) \o line])]

\* A content line that is no book line
TextLine(s, line) ==
  LET words == SplitWhitespace(line)
      i == FirstRef(words)
      t == [s EXCEPT !.last_line_was_book = FALSE]
  IN IF i # 0 THEN VerseRefFound(t, words, i) ELSE Continuation(t, line)

\* Faulty variant: the table of contents is complete with the 39 Old
\* Testament titles alone
CollectTocOtOnly(s, line) ==
  LET b == is_book_line(line)
      t == IF s.toc_is_ot
           THEN [s EXCEPT !.ot_contents = Append(@, b[1].name)]
           ELSE [s EXCEPT !.nt_contents = Append(@, b[1].name)]
  IN IF b = None THEN s
     ELSE IF Len(t.ot_contents) = OtTocCount
       THEN [t EXCEPT !.toc_complete = TRUE]
       ELSE t

\* "Collect table of contents entries while in TOC"
CollectToc(s, line) ==
  LET b == is_book_line(line)
      t == IF s.toc_is_ot
           THEN [s EXCEPT !.ot_contents = Append(@, b[1].name)]
           ELSE [s EXCEPT !.nt_contents = Append(@, b[1].name)]
  IN IF b = None THEN s
     ELSE IF Len(t.ot_contents) = OtTocCount /\ Len(t.nt_contents) = NtTocCount
       THEN [t EXCEPT !.toc_complete = TRUE]
       ELSE t

\* "After TOC is complete, look for the content section marker"
AwaitContent(s, line) ==
  IF Contains(line, TheOldTestament)
  THEN [s EXCEPT !.in_content = TRUE, !.in_toc = FALSE]
  ELSE s

\* Whether the iteration for a line aborts the program (a panic)
Panics(s, raw) ==
  LET line == Trim(raw)
      b == is_book_line(line)
      words == SplitWhitespace(line)
  IN IF line = <<>> THEN FALSE
     ELSE IF ~s.in_bible THEN FALSE
     ELSE IF ~s.in_toc /\ ~s.in_content /\ Contains(line, TheOldTestament) THEN FALSE
     ELSE IF s.in_toc /\ Contains(line, TheNewTestament) THEN FALSE
     ELSE IF s.in_toc /\ ~s.toc_complete THEN FALSE
     ELSE IF s.toc_complete /\ ~s.in_content THEN FALSE
     ELSE IF ~s.in_content THEN FALSE
     ELSE IF b # None THEN UnwrapOfNone(s, b[1].name)
     ELSE FirstRef(words) # 0 /\ SliceOutOfBounds(s, words, FirstRef(words))

\* Faulty variant: the start marker line is processed further after in_bible
\* is set
ProcessLineNoContinue(s, raw) ==
  LET line == Trim(raw)
      b == is_book_line(line)
      t == [s EXCEPT !.in_bible = TRUE]
  IN IF line = <<>> THEN s
     ELSE IF ~s.in_bible
       THEN (IF Contains(line, StartMarker)
             THEN (IF ~s.in_toc /\ ~s.in_content /\ Contains(line, TheOldTestament)
                   THEN [t EXCEPT !.in_toc = TRUE, !.toc_is_ot = TRUE] ELSE t)
             ELSE s)
     ELSE IF ~s.in_toc /\ ~s.in_content /\ Contains(line, TheOldTestament)
       THEN [s EXCEPT !.in_toc = TRUE, !.toc_is_ot = TRUE]
     ELSE IF s.in_toc /\ Contains(line, TheNewTestament)
       THEN [s EXCEPT !.toc_is_ot = FALSE]
     ELSE IF s.in_toc /\ ~s.toc_complete THEN CollectToc(s, line)
     ELSE IF s.toc_complete /\ ~s.in_content THEN AwaitContent(s, line)
     ELSE IF ~s.in_content THEN s
     ELSE IF b # None
       THEN BookLine(s, b[1].name, b[1].is_old_testament)
     ELSE TextLine(s, line)

\* One iteration of "for line in txt.lines()"
ProcessLine(s, raw) ==
  LET line == Trim(raw)
      b == is_book_line(line)
  IN IF line = <<>> THEN s
     ELSE IF ~s.in_bible
       THEN (IF Contains(line, StartMarker)
             THEN [s EXCEPT !.in_bible = TRUE] ELSE s)
     ELSE IF ~s.in_toc /\ ~s.in_content /\ Contains(line, TheOldTestament)
       THEN [s EXCEPT !.in_toc = TRUE, !.toc_is_ot = TRUE]
     ELSE IF s.in_toc /\ Contains(line, TheNewTestament)
       THEN [s EXCEPT !.toc_is_ot = FALSE]
     ELSE IF s.in_toc /\ ~s.toc_complete THEN CollectToc(s, line)
     ELSE IF s.toc_complete /\ ~s.in_content THEN AwaitContent(s, line)
     ELSE IF ~s.in_content THEN s
     ELSE IF b # None
       THEN BookLine(s, b[1].name, b[1].is_old_testament)
     ELSE TextLine(s, line)

\* Faulty variant: the book is flushed before its chapter and verse
FlushAtEndBookFirst(s) == SaveVerse(SaveChapter(SaveBook(s)))

\* The flush after the loop: last verse, last chapter, last book
FlushAtEnd(s) == SaveBook(SaveChapter(SaveVerse(s)))

(***************************************************************************)
(* Inputs.  The text is read line by line: first a scripted front (the     *)
(* boilerplate, the start marker and the table of contents), then up to    *)
(* MaxBody lines chosen freely among BodyLines.                            *)
(***************************************************************************)

\* Free lines after the scripted front
MaxBody == 4

\* The title line of an entry of a table: the bare title or the prefix itself
RECURSIVE TitlesOf(_, _)
TitlesOf(books, key) ==
  IF books = <<>> THEN <<>>
  ELSE <<IF key = "title" THEN Head(books).title ELSE Head(books).prefix>>
       \o TitlesOf(Tail(books), key)

\* The 39 Old Testament header lines in the order of the edition
OtTitles ==
  TitlesOf(SubSeq(ot_books, 1, 8), "prefix")
  \o <<FirstBookOfSamuel, SecondBookOfSamuel,
       FirstBookOfTheKings, SecondBookOfTheKings>>
  \o TitlesOf(SubSeq(ot_books, 9, 10), "prefix")
  \o TitlesOf(SubSeq(bare_books, 13, 13), "title")
  \o TitlesOf(SubSeq(ot_books, 11, 15), "prefix")
  \o TitlesOf(SubSeq(bare_books, 14, 14), "title")
  \o TitlesOf(SubSeq(ot_books, 16, 21), "prefix")
  \o TitlesOf(SubSeq(bare_books, 1, 12), "title")

\* The 27 New Testament header lines in the order of the edition
NtTitles == TitlesOf(nt_books, "prefix")

\* The canonical names in the order of the edition
OtNames ==
  [i \in 1..Len(OtTitles) |-> is_book_line(OtTitles[i])[1].name]

NtNames ==
  [i \in 1..Len(NtTitles) |-> is_book_line(NtTitles[i])[1].name]

LineMarker == <<"***", " ", "START", " ", "OF", " ", "THE", " ", "PROJECT", " ",
                "GUTENBERG", " ", "EBOOK", " ", "***">>

LineOldTestament == TheOldTestament \o <<" ", "of", " ", "the", " ", "King", " ", "James", " ", "Bible">>

LineNewTestament == TheNewTestament \o <<" ", "of", " ", "the", " ", "King", " ", "James", " ", "Bible">>

LineOtherwiseCalled == <<"Otherwise", " ", "Called", ":">>

LineHosea == <<"Hosea">>

LineMatthew == nt_books[1].prefix

LineBlank == <<SP>>

\* "1:1 In the": a reference that starts its line
LineRef11 == <<" ", "1", ":", "1", " ", "In", " ", " ", "the">>

\* "beginning. 1:2 And": a reference after the last words of the verse before
LineRef12 == <<"beginning.", " ", "1", ":", "2", "\t", "And">>

\* "1:3": a reference that ends its line
LineRef13 == <<"1", ":", "3">>

\* "2:1 Thus"
LineRef21 == <<"2", ":", "1", " ", "Thus">>

\* "God  created": a continuation line with two spaces inside
LineText == <<"God", " ", " ", "created">>

BodyLines ==
  { FirstBookOfSamuel, FirstBookOfTheKings, LineHosea, LineMatthew,
    LineBlank, LineRef11, LineRef12, LineRef13, LineRef21, LineText }

\* A front: boilerplate, start marker, table of contents, content marker
Front(pre, ot_toc, nt_toc) ==
  pre \o <<LineMarker, LineOldTestament>> \o ot_toc
      \o <<LineNewTestament>> \o nt_toc \o <<LineOldTestament>>

\* A start marker line that also holds "The Old Testament"
LineMarkerOldTestament == StartMarker \o <<" ">> \o TheOldTestament

\* Boilerplate that looks like scripture
Boilerplate == <<LineOldTestament, LineHosea, LineRef11>>

\* The table of contents of the edition
CanonicalToc == [ot |-> OtTitles, nt |-> NtTitles]

\* The number of lines of a sequence that are classified as book titles
RECURSIVE Titles(_)
Titles(ls) ==
  IF ls = <<>> THEN 0
  ELSE (IF is_book_line(Head(ls)) # None THEN 1 ELSE 0) + Titles(Tail(ls))

\* The numbers of titles a table of contents lists
TitleCounts(toc) == [ot |-> Titles(toc.ot), nt |-> Titles(toc.nt)]

Fronts ==
  { Front(<<>>, OtTitles, NtTitles),
    Front(Boilerplate, OtTitles, NtTitles),
    Front(<<>>, Tail(OtTitles), NtTitles),
    Front(<<>>, OtTitles, Tail(NtTitles)),
    <<LineOldTestament>> \o OtTitles \o <<LineNewTestament>> \o NtTitles
      \o <<LineOldTestament>>,
    <<LineMarkerOldTestament>> \o OtTitles \o <<LineNewTestament>> \o NtTitles
      \o <<LineOldTestament>> }

(***************************************************************************)
(* Inputs laid out like the reference text: the full table of contents,    *)
(* then every book once, in the order of the edition: its header line, for *)
(* the books of Samuel the "Otherwise Called:" line and the alternate      *)
(* title naming the Kings, then the lines of its verses.                   *)
(***************************************************************************)

\* The lines printed under the header of a book of Samuel
AlternateTitle(title) ==
  IF title = FirstBookOfSamuel THEN <<LineOtherwiseCalled, FirstBookOfTheKings>>
  ELSE IF title = SecondBookOfSamuel
    THEN <<LineOtherwiseCalled, SecondBookOfTheKings>>
  ELSE <<>>

RECURSIVE RefBooks(_, _)
RefBooks(titles, verses) ==
  IF titles = <<>> THEN <<>>
  ELSE <<Head(titles)>> \o AlternateTitle(Head(titles)) \o verses
       \o RefBooks(Tail(titles), verses)

\* The verse lines given to every book: each holds at least one reference
VersePatterns ==
  { <<LineRef11>>,
    <<LineRef11, LineText, LineRef12>>,
    <<LineRef13, LineRef12, LineRef21>>,
    <<LineBlank, LineRef12, LineOtherwiseCalled, LineRef21, LineText>> }

RefTexts ==
  { Front(<<>>, OtTitles, NtTitles) \o RefBooks(OtTitles \o NtTitles, v) :
      v \in VersePatterns }

(***************************************************************************)
(* Inputs for the scan of a line for a verse reference: in the content     *)
(* section, with a book and the verse 1:1 open, one line that holds a word *)
(* made of up to MaxWordLen chunks, alone or between two plain words.      *)
(***************************************************************************)

\* Chunks of a word
MaxWordLen == 4

\* A digit run, a run too large for u32, a colon, the two signs, a comma
WordChunks == {"1", "99999999999", COLON, PLUS, "-", ","}

\* The words of n chunks; a run of digits is one chunk, so that no two
\* digit chunks are adjacent
RECURSIVE WordsOfLen(_)
WordsOfLen(n) ==
  IF n = 0 THEN {<<>>}
  ELSE UNION {{<<c>> \o w :
                 w \in {v \in WordsOfLen(n - 1) :
                          c \in DigitRuns => (v = <<>> \/ v[1] \notin DigitRuns)}} :
              c \in WordChunks}

Words == UNION {WordsOfLen(n) : n \in 1..MaxWordLen}

WordLines == Words \cup {<<"x", SP>> \o w \o <<SP, "y">> : w \in Words}

(***************************************************************************)
(* Inputs for the grouping of verses into chapters: in the content section *)
(* with the book Hosea open, up to MaxChapterLines lines of references and *)
(* text, one of them writing chapter 1 as "01".                            *)
(***************************************************************************)

MaxChapterLines == 4

\* "01:2 earth"
LineRef01 == <<"01", ":", "2", " ", "earth">>

ChapterLines == {LineRef11, LineRef12, LineRef21, LineRef01, LineText}

(***************************************************************************)
(* Inputs for the verses of several books: from the start of the content   *)
(* section up to MaxVerseLines lines, headers of an Old and a New          *)
(* Testament book, references, one line with two reference tokens, text.   *)
(***************************************************************************)

MaxVerseLines == 4

\* "1:3 2:1": two reference tokens on one line
LineTwoRefs == <<"1", ":", "3", " ", "2", ":", "1">>

VerseLines ==
  {LineHosea, LineMatthew, LineRef11, LineRef12, LineRef21, LineTwoRefs, LineText}

(***************************************************************************)
(* Inputs for the classification of a line: as the first line of the       *)
(* content section, each of the 66 titles as it is, between whitespace,    *)
(* followed by a word or a letter, after a word, and with the words        *)
(* "Otherwise Called" after or before it; also lines without a title.      *)
(***************************************************************************)

AllTitles ==
  {OtTitles[i] : i \in DOMAIN OtTitles} \cup {NtTitles[i] : i \in DOMAIN NtTitles}

TitleLines ==
  UNION {{ t,
           <<SP>> \o t \o <<TAB>>,
           t \o <<SP, "x">>,
           t \o <<"s">>,
           <<"x", SP>> \o t,
           t \o <<SP, "Otherwise", SP, "Called", COLON>>,
           t \o <<SP, "Otherwise", SP, "Called">>,
           <<"Otherwise", SP, "Called", SP>> \o t } : t \in AllTitles}
    \cup {<<>>, LineBlank, LineText, <<"Otherwise", SP, "Called">>}

(***************************************************************************)
(* The state machine.                                                      *)
(***************************************************************************)

VARIABLES
  p,         \* the locals of parse_gutenberg
  pc,        \* "loop" while lines are read, "done" after the final flush,
             \* "panic" after an abort
  rest,      \* the scripted lines not yet read
  budget,    \* the number of free lines that may still be read
  line,      \* the line read last
  body,      \* the lines read in the content section (in_content was true)
  opened,    \* for each line of body, whether reading it opened a Book
  q,         \* the locals of a second run of parse_gutenberg
  rest2,     \* the scripted lines the second run has not yet read
  listed,    \* the numbers of titles the tables of contents of the two runs list
  family     \* the set of lines the free lines are chosen from, by name

vars == <<p, pc, rest, budget, line, body, opened, q, rest2, listed, family>>

\* Whether a step from s to t opened a Book: a book was flushed, or the
\* first book appeared
OpensBook(s, t) ==
  /\ t.current_book # None
  /\ \/ s.current_book = None
     \/ Len(t.ot) + Len(t.nt) > Len(s.ot) + Len(s.nt)

Init ==
  /\ p = InitialState
  /\ pc = "loop"
  /\ rest \in Fronts
  /\ budget = MaxBody
  /\ line = <<>>
  /\ body = <<>>
  /\ opened = <<>>
  /\ q = InitialState
  /\ rest2 = <<>>
  /\ listed = <<TitleCounts(CanonicalToc), TitleCounts(CanonicalToc)>>
  /\ family = "body"

\* The reference layout: the whole text is scripted
InitRef ==
  /\ p = InitialState
  /\ pc = "loop"
  /\ rest \in RefTexts
  /\ budget = 0
  /\ line = <<>>
  /\ body = <<>>
  /\ opened = <<>>
  /\ q = InitialState
  /\ rest2 = <<>>
  /\ listed = <<TitleCounts(CanonicalToc), TitleCounts(CanonicalToc)>>
  /\ family = "body"

\* The scan of one line: the front, "Hosea" and "1:1 In the" are scripted
InitWords ==
  /\ p = InitialState
  /\ pc = "loop"
  /\ rest = Front(<<>>, OtTitles, NtTitles) \o <<LineHosea, LineRef11>>
  /\ budget = 1
  /\ line = <<>>
  /\ body = <<>>
  /\ opened = <<>>
  /\ q = InitialState
  /\ rest2 = <<>>
  /\ listed = <<TitleCounts(CanonicalToc), TitleCounts(CanonicalToc)>>
  /\ family = "words"

\* The chapters of one book: the front and "Hosea" are scripted
InitChapters ==
  /\ p = InitialState
  /\ pc = "loop"
  /\ rest = Front(<<>>, OtTitles, NtTitles) \o <<LineHosea>>
  /\ budget = MaxChapterLines
  /\ line = <<>>
  /\ body = <<>>
  /\ opened = <<>>
  /\ q = InitialState
  /\ rest2 = <<>>
  /\ listed = <<TitleCounts(CanonicalToc), TitleCounts(CanonicalToc)>>
  /\ family = "chapters"

\* The verses of several books: the front is scripted
InitVerses ==
  /\ p = InitialState
  /\ pc = "loop"
  /\ rest = Front(<<>>, OtTitles, NtTitles)
  /\ budget = MaxVerseLines
  /\ line = <<>>
  /\ body = <<>>
  /\ opened = <<>>
  /\ q = InitialState
  /\ rest2 = <<>>
  /\ listed = <<TitleCounts(CanonicalToc), TitleCounts(CanonicalToc)>>
  /\ family = "verses"

\* The classification of one line: the front is scripted
InitTitles ==
  /\ p = InitialState
  /\ pc = "loop"
  /\ rest = Front(<<>>, OtTitles, NtTitles)
  /\ budget = 1
  /\ line = <<>>
  /\ body = <<>>
  /\ opened = <<>>
  /\ q = InitialState
  /\ rest2 = <<>>
  /\ listed = <<TitleCounts(CanonicalToc), TitleCounts(CanonicalToc)>>
  /\ family = "titles"

\* The lines the input may continue with
NextLines ==
  IF rest # <<>> THEN {Head(rest)}
  ELSE IF budget = 0 THEN {}
  ELSE IF family = "words" THEN WordLines
  ELSE IF family = "chapters" THEN ChapterLines
  ELSE IF family = "titles" THEN TitleLines
  ELSE IF family = "verses" THEN VerseLines
  ELSE BodyLines

\* The loop reads one line
ReadLine ==
  /\ pc = "loop"
  /\ \E l \in NextLines :
       /\ line' = l
       /\ pc' = (IF Panics(p, l) THEN "panic" ELSE pc)
       /\ p' = (IF Panics(p, l) THEN p ELSE ProcessLine(p, l))
       /\ body' = (IF p.in_content THEN Append(body, l) ELSE body)
       /\ opened' = (IF p.in_content
                     THEN Append(opened, ~Panics(p, l)
                                         /\ OpensBook(p, ProcessLine(p, l)))
                     ELSE opened)
  /\ rest' = (IF rest # <<>> THEN Tail(rest) ELSE rest)
  /\ budget' = (IF rest # <<>> THEN budget ELSE budget - 1)
  /\ UNCHANGED <<q, rest2, listed, family>>

\* The input ends: the flush after the loop
Finish ==
  /\ pc = "loop"
  /\ rest = <<>>
  /\ p' = FlushAtEnd(p)
  /\ pc' = "done"
  /\ UNCHANGED <<rest, budget, line, body, opened, q, rest2, listed, family>>

Next == ReadLine \/ Finish

(***************************************************************************)
(* Two runs over two texts that differ only in the titles their tables of  *)
(* contents list.  Each run reads its own front; the free lines that       *)
(* follow go to both.                                                      *)
(***************************************************************************)

\* Free lines after the fronts of the two runs
MaxPairBody == 3

\* n copies of a line
Repeat(l, n) == [i \in 1..n |-> l]

\* Tables of 39 and 27 titles
CompleteTocs ==
  { CanonicalToc,
    [ot |-> Repeat(LineMatthew, Len(OtTitles)),
     nt |-> Repeat(LineHosea, Len(NtTitles))] }

\* Tables with a title missing or a title too many
OtherTocs ==
  { [ot |-> Tail(OtTitles), nt |-> NtTitles],
    [ot |-> OtTitles, nt |-> Tail(NtTitles)],
    [ot |-> <<LineHosea>> \o OtTitles, nt |-> NtTitles],
    [ot |-> OtTitles, nt |-> NtTitles \o <<LineMatthew>>] }

InitPair ==
  /\ p = InitialState
  /\ q = InitialState
  /\ pc = "loop"
  /\ \E t1 \in CompleteTocs, t2 \in CompleteTocs \cup OtherTocs :
       /\ rest = Front(<<>>, t1.ot, t1.nt)
       /\ rest2 = Front(<<>>, t2.ot, t2.nt)
       /\ listed = <<TitleCounts(t1), TitleCounts(t2)>>
  /\ budget = MaxPairBody
  /\ family = "body"
  /\ line = <<>>
  /\ body = <<>>
  /\ opened = <<>>

\* Both loops read one line: each its own scripted line while it has one,
\* then the same free line
ReadPair ==
  /\ pc = "loop"
  /\ IF rest # <<>> \/ rest2 # <<>>
     THEN /\ p' = (IF rest # <<>> THEN ProcessLine(p, Head(rest)) ELSE p)
          /\ q' = (IF rest2 # <<>> THEN ProcessLine(q, Head(rest2)) ELSE q)
          /\ rest' = (IF rest # <<>> THEN Tail(rest) ELSE rest)
          /\ rest2' = (IF rest2 # <<>> THEN Tail(rest2) ELSE rest2)
          /\ UNCHANGED <<budget, line, body>>
     ELSE /\ budget > 0
          /\ \E l \in BodyLines :
               /\ line' = l
               /\ p' = ProcessLine(p, l)
               /\ q' = ProcessLine(q, l)
               /\ body' = Append(body, l)
          /\ budget' = budget - 1
          /\ UNCHANGED <<rest, rest2>>
  /\ UNCHANGED <<pc, opened, listed, family>>

\* Both inputs end: both runs flush
FinishPair ==
  /\ pc = "loop"
  /\ rest = <<>>
  /\ rest2 = <<>>
  /\ p' = FlushAtEnd(p)
  /\ q' = FlushAtEnd(q)
  /\ pc' = "done"
  /\ UNCHANGED <<rest, rest2, budget, line, body, opened, listed, family>>

NextPair == ReadPair \/ FinishPair

SpecPair == InitPair /\ [][NextPair]_vars

Spec == Init /\ [][Next]_vars

SpecRef == InitRef /\ [][Next]_vars

SpecWords == InitWords /\ [][Next]_vars

SpecChapters == InitChapters /\ [][Next]_vars

SpecTitles == InitTitles /\ [][Next]_vars

SpecVerses == InitVerses /\ [][Next]_vars

(***************************************************************************)
(* Claims.                                                                 *)
(***************************************************************************)

\* The names of a sequence of Books
BookNames(books) == [i \in 1..Len(books) |-> books[i].name]

\* C1: for an input laid out like the reference text the returned Document
\* holds exactly 39 Books in ot and 27 in nt, one per canonical name, in the
\* order of the edition.
C1_ReferenceBookCounts ==
  pc = "done" =>
    /\ Len(p.ot) = 39
    /\ Len(p.nt) = 27
    /\ BookNames(p.ot) = OtNames
    /\ BookNames(p.nt) = NtNames

\* C1, witness: a reference text was parsed to its end, the alternate titles
\* of both books of Samuel were read, and 1 Samuel and 2 Kings hold chapters.
C1_Witness ==
  /\ pc = "done"
  /\ \E i, j \in 1..Len(body) :
       /\ i < j
       /\ body[i] = FirstBookOfSamuel
       /\ body[i + 1] = LineOtherwiseCalled
       /\ body[i + 2] = FirstBookOfTheKings
       /\ body[j] = SecondBookOfSamuel
       /\ body[j + 2] = SecondBookOfTheKings
  /\ \E k \in 1..Len(p.ot) : p.ot[k].name = "1 Samuel" /\ p.ot[k].chapters # <<>>
  /\ \E k \in 1..Len(p.ot) : p.ot[k].name = "2 Kings" /\ p.ot[k].chapters # <<>>

(***************************************************************************)
(* The content section as the input shows it: what each line of body is,   *)
(* independently of the assembler's flags.                                 *)
(***************************************************************************)

IsBlank(l) == Trim(l) = <<>>

\* The line is classified as a book title
IsCandidate(l) == is_book_line(l) # None

\* The line is classified as "1 Kings" or "2 Kings"
IsKingsCandidate(l) == IsCandidate(l) /\ IsKings(is_book_line(l)[1].name)

\* The line is no book title and holds a verse reference token
IsRefLine(l) == ~IsCandidate(l) /\ FirstRef(SplitWhitespace(Trim(l))) # 0

\* The last line of body before line n that is not blank (0: none)
PrevNonBlank(n) ==
  LET c == {k \in 1..(n - 1) : ~IsBlank(body[k])}
  IN IF c = {} THEN 0 ELSE CHOOSE k \in c : \A j \in c : j <= k

\* The last line of body before line n that opened a Book (0: none)
LastOpened(n) ==
  LET c == {k \in 1..(n - 1) : opened[k]}
  IN IF c = {} THEN 0 ELSE CHOOSE k \in c : \A j \in c : j <= k

\* A verse reference was recognized on a line strictly between k and n
RefBetween(k, n) == \E i \in (k + 1)..(n - 1) : IsRefLine(body[i])

\* The step reads a line of the content section
ReadsContentLine == pc = "loop" /\ pc' = "loop" /\ p.in_content

\* The step leaves the open book and both collections as they were
NoBookStep ==
  /\ p'.current_book = p.current_book
  /\ p'.ot = p.ot
  /\ p'.nt = p.nt

\* C2: a line classified as 1 Kings or 2 Kings that comes, blank lines
\* ignored, right after a line that opened a Book creates no Book: the open
\* book stays and nothing is flushed to ot or nt.
C2_SuppressionRuleA ==
  [][ ( /\ ReadsContentLine
        /\ IsKingsCandidate(line')
        /\ PrevNonBlank(Len(body) + 1) # 0
        /\ opened[PrevNonBlank(Len(body) + 1)] )
      => NoBookStep ]_vars

\* C2, witness: "Hosea", a blank line, then a Kings title that was
\* discarded: Hosea is still the open book and no Book was flushed.
C2_Witness ==
  /\ pc = "loop"
  /\ body = <<LineHosea, LineBlank, FirstBookOfTheKings>>
  /\ opened = <<TRUE, FALSE, FALSE>>
  /\ p.current_book = Some([name |-> "Hosea", chapters |-> <<>>])
  /\ p.ot = <<>>

\* C3: while the open book is a book of Samuel, a Kings candidate is
\* discarded (nothing opened, nothing flushed) exactly when no verse
\* reference was recognized since the Samuel header was accepted; otherwise
\* it is accepted: the Samuel book is sealed into ot and the Kings book opens.
C3_SuppressionRuleB ==
  [][ ( /\ ReadsContentLine
        /\ IsKingsCandidate(line')
        /\ p.current_book # None
        /\ NameContainsSamuel(p.current_book[1].name) )
      => LET n == Len(body) + 1
             seen == RefBetween(LastOpened(n), n)
         IN /\ ~seen => NoBookStep
            /\ seen =>
                 /\ Len(p'.ot) = Len(p.ot) + 1
                 /\ p'.ot[Len(p'.ot)].name = p.current_book[1].name
                 /\ p'.current_book # None
                 /\ p'.current_book[1].name = is_book_line(line')[1].name
                 /\ p'.current_verse = None ]_vars

\* C3, witness: 1 Samuel received a verse and the Kings title that followed
\* sealed it.
C3_Witness ==
  /\ body = <<FirstBookOfSamuel, LineRef11, FirstBookOfTheKings>>
  /\ opened = <<TRUE, FALSE, TRUE>>
  /\ BookNames(p.ot) = <<"1 Samuel">>
  /\ Len(p.ot[1].chapters) = 1
  /\ p.current_book = Some([name |-> "1 Kings", chapters |-> <<>>])

\* C4: a header for the name of the open book, met again before any verse
\* reference was recognized for that book, creates no Book.
C4_ReopenCreatesNoBook ==
  \A n \in 1..Len(body) :
    LET k == LastOpened(n)
    IN ( /\ k # 0
         /\ IsCandidate(body[n])
         /\ is_book_line(body[n])[1].name = is_book_line(body[k])[1].name
         /\ ~RefBetween(k, n) )
       => ~opened[n]

\* The Books of the Document, the Old Testament first
AllBooks == p.ot \o p.nt

\* C5: every Verse of the returned Document has a non-empty text.
C5_VerseTextNonEmpty ==
  pc = "done" =>
    \A b \in 1..Len(AllBooks) :
      \A c \in 1..Len(AllBooks[b].chapters) :
        \A v \in 1..Len(AllBooks[b].chapters[c].verses) :
          AllBooks[b].chapters[c].verses[v].text # <<>>

\* C6: every Chapter of a Book, sealed or open, has at least one Verse.
C6_ChapterHasVerse ==
  LET books == AllBooks \o p.current_book
  IN \A b \in 1..Len(books) :
       \A c \in 1..Len(books[b].chapters) :
         books[b].chapters[c].verses # <<>>

\* C6, witness: the returned Document holds a Book of two Chapters, the
\* first sealed by a reference to another chapter.
C6_Witness ==
  /\ pc = "done"
  /\ \E b \in 1..Len(AllBooks) : Len(AllBooks[b].chapters) = 2

\* C7: every Book of the returned Document has at least one Chapter.
C7_BookHasChapter ==
  pc = "done" =>
    \A b \in 1..Len(AllBooks) : AllBooks[b].chapters # <<>>

\* The table of a run lists exactly 39 Old Testament and 27 New Testament titles
ListsAllBooks(run) == listed[run].ot = 39 /\ listed[run].nt = 27

WordsOf(i) == SplitWhitespace(Trim(body[i]))

\* The first line after line i that is a book title or holds a reference
NextBoundary(i) ==
  LET c == {j \in (i + 1)..Len(body) : IsCandidate(body[j]) \/ IsRefLine(body[j])}
  IN IF c = {} THEN Len(body) + 1 ELSE CHOOSE j \in c : \A k \in c : j <= k

\* The lines strictly between a and b that are not blank, trimmed, in order
RECURSIVE LinesBetween(_, _)
LinesBetween(a, b) ==
  IF a + 1 >= b THEN <<>>
  ELSE (IF IsBlank(body[a + 1]) THEN <<>> ELSE <<Trim(body[a + 1])>>)
       \o LinesBetween(a + 1, b)

\* The pieces of the verse whose reference is on line i
Pieces(i) ==
  LET w == WordsOf(i)
      r == FirstRef(w)
      j == NextBoundary(i)
      after == IF r < Len(w) THEN <<JoinSpace(SubSeq(w, r + 1, Len(w)))>> ELSE <<>>
      before ==
        IF j <= Len(body) /\ IsRefLine(body[j]) /\ FirstRef(WordsOf(j)) > 1
        THEN <<JoinSpace(SubSeq(WordsOf(j), 1, FirstRef(WordsOf(j)) - 1))>>
        ELSE <<>>
  IN after \o LinesBetween(i, j) \o before

\* The single-space join of the pieces
ExpectedText(i) == JoinSpace(Pieces(i))

\* The reference lines strictly between a and b, in order
RECURSIVE RefLinesBetween(_, _)
RefLinesBetween(a, b) ==
  IF a + 1 >= b THEN <<>>
  ELSE (IF IsRefLine(body[a + 1]) THEN <<a + 1>> ELSE <<>>)
       \o RefLinesBetween(a + 1, b)

\* The first line after line a that opened a Book
NextOpened(a) ==
  LET c == {j \in (a + 1)..Len(body) : opened[j]}
  IN IF c = {} THEN Len(body) + 1 ELSE CHOOSE j \in c : \A k \in c : j <= k

\* The texts expected for the Book opened by line a
ExpectedBookTexts(a) ==
  LET refs == RefLinesBetween(a, NextOpened(a))
  IN [k \in 1..Len(refs) |-> ExpectedText(refs[k])]

\* The lines from a on that opened a Book of the given testament, in order
RECURSIVE OpenedFrom(_, _)
OpenedFrom(a, old) ==
  IF a > Len(body) THEN <<>>
  ELSE (IF opened[a] /\ is_book_line(body[a])[1].is_old_testament = old
        THEN <<a>> ELSE <<>>)
       \o OpenedFrom(a + 1, old)

\* The texts expected for the Books of a testament
ExpectedTexts(old) ==
  LET heads == OpenedFrom(1, old)
  IN [k \in 1..Len(heads) |-> ExpectedBookTexts(heads[k])]

\* The texts of the verses of a sequence of Chapters, in order
RECURSIVE ChapterTexts(_)
ChapterTexts(chapters) ==
  IF chapters = <<>> THEN <<>>
  ELSE [v \in 1..Len(Head(chapters).verses) |-> Head(chapters).verses[v].text]
       \o ChapterTexts(Tail(chapters))

\* The texts of the verses of each Book of a collection
TextsOf(books) == [b \in 1..Len(books) |-> ChapterTexts(books[b].chapters)]

\* C9: the text of every verse of the returned Document is the single-space
\* join, in input order, of the words after its reference, the content lines
\* that follow up to the next reference line or book title, and the words
\* before the next reference on its line; no piece is added or left out.
C9_VerseTextIsJoin ==
  pc = "done" =>
    /\ TextsOf(p.ot) = ExpectedTexts(TRUE)
    /\ TextsOf(p.nt) = ExpectedTexts(FALSE)

\* C9, witness: a verse made of the words after "1:1", a continuation line
\* and the word before "1:2".
C9_Witness ==
  /\ pc = "done"
  /\ body = <<LineHosea, LineRef11, LineText, LineRef12>>
  /\ TextsOf(p.ot) =
       << << <<"In", " ", "the", " ", "God", " ", " ", "created", " ", "beginning.">>,
             <<"And">> >> >>

\* A text without leading or trailing whitespace, tabs or runs of whitespace
Normalized(text) ==
  /\ \A i \in 1..Len(text) : text[i] # TAB
  /\ text # <<>> => text[1] \notin Whitespace /\ text[Len(text)] \notin Whitespace
  /\ \A i \in 1..(Len(text) - 1) :
       ~(text[i] \in Whitespace /\ text[i + 1] \in Whitespace)

\* C10: every verse text of the returned Document is whitespace-normalized.
C10_TextNormalized ==
  pc = "done" =>
    \A b \in 1..Len(AllBooks) :
      \A c \in 1..Len(AllBooks[b].chapters) :
        \A v \in 1..Len(AllBooks[b].chapters[c].verses) :
          Normalized(AllBooks[b].chapters[c].verses[v].text)


(***************************************************************************)
(* The scan for a verse reference.                                         *)
(***************************************************************************)

\* A word of the form digits, one colon, digits, both within 32 bits
IsPlainRef(word) ==
  /\ Len(word) = 3
  /\ word[1] \in DigitRuns /\ FitsU32(word[1])
  /\ word[2] = COLON
  /\ word[3] \in DigitRuns /\ FitsU32(word[3])

\* The one free line of the scan has been read
WordLineRead == family = "words" /\ pc = "loop" /\ rest = <<>> /\ budget = 0

\* Reading the line sealed the verse 1:1 that was open before it, which is
\* what the start of a verse or of a chapter does and a continuation does not
SealedOpenVerse ==
  \/ p.current_chapter # None /\ p.current_chapter[1].verses # <<>>
  \/ p.current_book # None /\ p.current_book[1].chapters # <<>>

\* C11: on a content line a word starts a verse exactly when it is decimal
\* digits, one colon, decimal digits, both within 32 bits; every other word
\* that holds a colon (a sign on either side, an empty side, a second colon,
\* attached punctuation) is text and starts neither a verse nor a chapter.
C11_RefIffDigitsColonDigits ==
  WordLineRead =>
    (SealedOpenVerse <=>
       \E i \in 1..Len(SplitWhitespace(line)) : IsPlainRef(SplitWhitespace(line)[i]))

(***************************************************************************)
(* The grouping of the verses of one book into chapters.                   *)
(***************************************************************************)

\* The reference token of line i of body
RefOf(i) == WordsOf(i)[FirstRef(WordsOf(i))]

\* The value a chapter or verse string denotes
DecimalValue(num) ==
  LET d == num[Len(num)]
  IN CASE d \in {"1", "01"} -> 1
       [] d = "2" -> 2
       [] d = "3" -> 3

\* The chapter string is written without sign and without leading zeros
IsCanonical(num) == Len(num) = 1 /\ num[1] \in {"1", "2", "3"}

SameString(a, b) == a = b

SameValue(a, b) == DecimalValue(a) = DecimalValue(b)

\* The chapters that the reference lines refs of body give, as pairs of a
\* chapter string and the verse strings under it, when the reference on
\* line i joins the last chapter exactly if it carries the same chapter
\* number, compared by value or as the string written
RECURSIVE Grouped(_, _, _)
Grouped(refs, acc, byValue) ==
  IF refs = <<>> THEN acc
  ELSE LET i == Head(refs)
           c == RefChapter(RefOf(i))
           v == RefVerse(RefOf(i))
           n == Len(acc)
       IN Grouped(Tail(refs),
                  IF n > 0 /\ (IF byValue THEN SameValue(acc[n].number, c)
                                          ELSE SameString(acc[n].number, c))
                  THEN [acc EXCEPT ![n].verses = Append(@, v)]
                  ELSE Append(acc, [number |-> c, verses |-> <<v>>]),
                  byValue)

\* The chapter strings of a Book with the verse strings of each
ShapeOf(book) ==
  [k \in 1..Len(book.chapters) |->
     [number |-> book.chapters[k].number,
      verses |-> [v \in 1..Len(book.chapters[k].verses) |->
                    book.chapters[k].verses[v].number]]]

\* The reference lines of the whole body, all of the one book Hosea
AllRefLines == RefLinesBetween(0, Len(body) + 1)

\* The chapter values of the references never decrease
NonDecreasing ==
  \A a, b \in 1..Len(AllRefLines) :
    a < b => DecimalValue(RefChapter(RefOf(AllRefLines[a])))
               <= DecimalValue(RefChapter(RefOf(AllRefLines[b])))

AllCanonical ==
  \A a \in 1..Len(AllRefLines) : IsCanonical(RefChapter(RefOf(AllRefLines[a])))

\* The chapter values the references carry
ChapterValues ==
  {DecimalValue(RefChapter(RefOf(AllRefLines[a]))) : a \in 1..Len(AllRefLines)}

\* The one book Hosea has been returned
HoseaReturned ==
  family = "chapters" /\ pc = "done" /\ Len(p.ot) = 1 /\ p.ot[1].name = "Hosea"

\* C12 as stated: within one open book a reference whose chapter number
\* equals that of the open chapter adds its verse to it and one whose number
\* differs seals it and opens a new Chapter; so a book whose references carry
\* non-decreasing chapter numbers ends with one Chapter per distinct number.
C12_ChapterPerNumber ==
  HoseaReturned =>
    /\ ShapeOf(p.ot[1]) = Grouped(AllRefLines, <<>>, TRUE)
    /\ NonDecreasing => Len(p.ot[1].chapters) = Cardinality(ChapterValues)

\* C12, amended: chapter numbers are compared as the strings of the source
\* ("01" is not "1"); a book whose references carry non-decreasing chapter
\* numbers, all written without sign or leading zeros, ends with one Chapter
\* per distinct number, in order of first appearance.
C12_ChapterPerString ==
  HoseaReturned =>
    /\ ShapeOf(p.ot[1]) = Grouped(AllRefLines, <<>>, FALSE)
    /\ NonDecreasing /\ AllCanonical =>
         /\ Len(p.ot[1].chapters) = Cardinality(ChapterValues)
         /\ \A a, b \in 1..Len(p.ot[1].chapters) :
              a < b => DecimalValue(p.ot[1].chapters[a].number)
                         < DecimalValue(p.ot[1].chapters[b].number)

\* C12, witness: verses 1:1 and 1:2 under chapter "1", then chapter "2".
C12_Witness ==
  /\ HoseaReturned
  /\ body = <<LineHosea, LineRef11, LineRef12, LineRef21>>
  /\ ShapeOf(p.ot[1]) =
       << [number |-> <<"1">>, verses |-> << <<"1">>, <<"2">> >>],
          [number |-> <<"2">>, verses |-> << <<"1">> >>] >>

(***************************************************************************)
(* The flush at the end of the input, and the testament of each Book.      *)
(***************************************************************************)

\* The canonical names of the two testaments, from the tables of is_book_line
OtCanon ==
  {ot_books[i].canonical : i \in DOMAIN ot_books}
    \cup {bare_books[i].canonical : i \in DOMAIN bare_books}
    \cup {"1 Samuel", "2 Samuel", "1 Kings", "2 Kings"}

NtCanon == {nt_books[i].canonical : i \in DOMAIN nt_books}

\* The chapter that is open in state s with the open verse as its last verse
OpenChapterSealed(s) ==
  IF s.current_verse = None THEN s.current_chapter[1]
  ELSE [s.current_chapter[1] EXCEPT !.verses = Append(@, s.current_verse[1])]

\* The book that is open in state s with the open chapter as its last chapter
OpenBookSealed(s) ==
  IF s.current_chapter = None THEN s.current_book[1]
  ELSE [s.current_book[1] EXCEPT !.chapters = Append(@, OpenChapterSealed(s))]

\* C13: when the lines run out with a book open, the open verse goes to the
\* open chapter, the chapter to the book and the book to the collection of
\* its testament: that collection gains exactly this Book as its last one,
\* its last Chapter the open chapter whose last Verse is the open verse with
\* its text so far; the other collection stays and nothing remains open.
C13_FlushAtEnd ==
  [][(pc = "loop" /\ pc' = "done" /\ p.current_book # None) =>
       LET old == p.current_book[1].name \in OtCanon
       IN /\ p'.ot = (IF old THEN Append(p.ot, OpenBookSealed(p)) ELSE p.ot)
          /\ p'.nt = (IF old THEN p.nt ELSE Append(p.nt, OpenBookSealed(p)))
          /\ p'.current_book = None
          /\ p'.current_chapter = None
          /\ p'.current_verse = None]_vars

\* C13, witness: the input ended inside verse 1:1 of Hosea, which is returned
\* with its continuation line.
C13_Witness ==
  /\ pc = "done"
  /\ body = <<LineHosea, LineRef11, LineText>>
  /\ Len(p.ot) = 1 /\ p.ot[1].name = "Hosea"
  /\ Len(p.ot[1].chapters) = 1
  /\ Len(p.ot[1].chapters[1].verses) = 1
  /\ p.ot[1].chapters[1].verses[1].text = ExpectedText(2)

\* C14: in every reachable state every Book of ot has an Old Testament name
\* and every Book of nt a New Testament name: a Book is flushed under the
\* flag set when it was opened, not that of the header that seals it.
C14_BooksInOwnTestament ==
  /\ \A k \in 1..Len(p.ot) : p.ot[k].name \in OtCanon
  /\ \A k \in 1..Len(p.nt) : p.nt[k].name \in NtCanon
  /\ p.current_book # None => (p.is_ot <=> p.current_book[1].name \in OtCanon)

\* C14, witness: Hosea, sealed by the header of Matthew, is in ot, and
\* Matthew, sealed by the header of Hosea, is in nt.
C14_Witness ==
  /\ pc = "loop"
  /\ body = <<LineHosea, LineMatthew, LineHosea>>
  /\ Len(p.ot) = 1 /\ p.ot[1].name = "Hosea"
  /\ Len(p.nt) = 1 /\ p.nt[1].name = "Matthew"
  /\ p.current_book # None /\ p.current_book[1].name = "Hosea"

(***************************************************************************)
(* The lines before the start marker.                                      *)
(***************************************************************************)

\* C15: no line up to and including the first start marker line leaves a
\* trace: while in_bible is false the state is the initial one, a line read
\* then changes nothing but in_bible, which it sets exactly when it holds the
\* marker, whatever else it holds (a title, "The Old Testament", a
\* reference); an input without marker ends with the empty Document.
C15_PreambleInert ==
  /\ [](~p.in_bible => p = InitialState)
  /\ [][(pc = "loop" /\ ~p.in_bible) =>
          IF pc' = "loop"
          THEN p' = [InitialState EXCEPT
                       !.in_bible = Contains(Trim(line'), StartMarker)]
          ELSE p' = InitialState]_vars

\* C15, witness: "The Old Testament", "Hosea" and "1:1 In  the" have been
\* read before the marker line, and the state is still the initial one.
C15_Witness ==
  /\ pc = "loop"
  /\ line = LineRef11
  /\ rest = Front(<<>>, OtTitles, NtTitles)
  /\ p = InitialState

(***************************************************************************)
(* The set found_books.                                                    *)
(***************************************************************************)

\* The state without the record of the books found
Forget(s) == [s EXCEPT !.found_books = {}]

\* C16: found_books influences no transition and not the returned Document:
\* from the state of any step, with found_books replaced by the empty set
\* or by the set of all 66 names, the line read (or the final flush) leads
\* to the same state up to found_books; with every step a function of state
\* and line, two runs over the same lines return identical Documents.
C16_FoundBooksInert ==
  [][pc = "loop" =>
       \A X \in {{}, OtCanon \cup NtCanon} :
         LET s == [p EXCEPT !.found_books = X]
         IN Forget(p') = Forget(IF pc' = "loop" THEN ProcessLine(s, line')
                                ELSE FlushAtEnd(s))]_vars

\* C16, witness: the header of Hosea was read a second time, with "Hosea"
\* already in found_books, and opened a Book as the first one did.
C16_Witness ==
  /\ pc = "loop"
  /\ body = <<LineHosea, LineRef11, LineHosea>>
  /\ p.found_books = {"Hosea"}
  /\ Len(p.ot) = 1 /\ p.ot[1].name = "Hosea"
  /\ p.current_book = Some([name |-> "Hosea", chapters |-> <<>>])

(***************************************************************************)
(* The classification of a line by is_book_line.                           *)
(***************************************************************************)

\* The one free line, the first of the content section, has been read
TitleLineRead == family = "titles" /\ pc = "loop" /\ rest = <<>> /\ budget = 0

\* The line holds the words "Otherwise Called"
HoldsOtherwiseCalled(l) ==
  \E k \in 1..(Len(l) - 2) :
    l[k] = "Otherwise" /\ l[k + 1] = " " /\ l[k + 2] = "Called"

\* C17: a line that is empty or all whitespace, and a line that holds
\* "Otherwise Called", is no book title, also when it starts with a title
\* that would match without these words: is_book_line gives None for it and
\* the line opens no Book.
C17_NoneForBlankOrOtherwiseCalled ==
  TitleLineRead /\ (IsBlank(line) \/ HoldsOtherwiseCalled(line)) =>
    /\ is_book_line(line) = None
    /\ p.current_book = None

\* C17, witness: "The Book of Job Otherwise Called" was read as the first
\* content line and no Book is open, while "The Book of Job" alone is a title.
C17_Witness ==
  /\ TitleLineRead
  /\ line = <<"The", " ", "Book", " ", "of", " ", "Job", " ", "Otherwise", " ", "Called">>
  /\ p.current_book = None
  /\ is_book_line(<<"The", " ", "Book", " ", "of", " ", "Job">>) # None

\* The rules of is_book_line one by one: the titles matched as whole lines
\* and the prefixes, each with the canonical name and testament it gives
ExactRules ==
  {[text |-> FirstBookOfSamuel, name |-> "1 Samuel", old |-> TRUE],
   [text |-> SecondBookOfSamuel, name |-> "2 Samuel", old |-> TRUE]}
    \cup {[text |-> bare_books[i].title, name |-> bare_books[i].canonical,
           old |-> TRUE] : i \in DOMAIN bare_books}

PrefixRules ==
  {[text |-> FirstBookOfTheKings, name |-> "1 Kings", old |-> TRUE],
   [text |-> SecondBookOfTheKings, name |-> "2 Kings", old |-> TRUE]}
    \cup {[text |-> ot_books[i].prefix, name |-> ot_books[i].canonical,
           old |-> TRUE] : i \in DOMAIN ot_books}
    \cup {[text |-> nt_books[i].prefix, name |-> nt_books[i].canonical,
           old |-> FALSE] : i \in DOMAIN nt_books}

\* The rules that match a trimmed line, whatever their order
MatchingRules(l) ==
  {r \in ExactRules : l = r.text} \cup {r \in PrefixRules : StartsWith(l, r.text)}

\* C18: a line is classified as a book only when, trimmed, it equals an
\* exact title or starts with a table prefix (a title further on in the line
\* does not count), and whatever the order of the rules at most one name can
\* result: no line matches two rules, so the name given is that of the
\* longest matching prefix, with the testament flag of that book.
C18_OneNamePerLine ==
  TitleLineRead =>
    LET hits == MatchingRules(Trim(line))
    IN /\ Cardinality(hits) <= 1
       /\ p.current_book # None =>
            \E r \in hits :
              /\ \A o \in hits : Len(o.text) <= Len(r.text)
              /\ p.current_book[1].name = r.name
              /\ p.is_ot = r.old
              /\ is_book_line(line) =
                   Some([name |-> r.name, is_old_testament |-> r.old])

\* C18, witness: "The Gospel According to Saint Johns" starts with one
\* prefix and opened John as a New Testament book.
C18_Witness ==
  /\ TitleLineRead
  /\ line = <<"The", " ", "Gospel", " ", "According", " ", "to", " ", "Saint",
              " ", "John", "s">>
  /\ p.current_book = Some([name |-> "John", chapters |-> <<>>])
  /\ ~p.is_ot

(***************************************************************************)
(* Totality of the parse.                                                  *)
(***************************************************************************)

\* The lines that are still to be read at most
LinesLeft == Len(rest) + budget

\* C19: the parse never aborts and always returns: no reachable state is the
\* abort state (every slice around a reference is within the words of the
\* line, the open book is read in the second suppression test only when a
\* book is open); while the loop runs a step is always possible, every
\* iteration consumes exactly one line of the finitely many, and after the
\* last line the flush gives the Document.
C19_AlwaysReturns ==
  /\ [](pc # "panic")
  /\ [](pc = "loop" =>
         /\ LinesLeft >= 0
         /\ IF rest = <<>> THEN ENABLED Finish ELSE ENABLED ReadLine)
  /\ [][pc = "loop" =>
          \/ pc' = "loop" /\ LinesLeft' = LinesLeft - 1
          \/ pc' = "done" /\ p' = FlushAtEnd(p)]_vars

\* C19, witness: a Kings title as the first content line (the second test
\* evaluated with no book open), a reference as the last word of its line and
\* a reference after other words were read, and the Document is returned.
C19_Witness ==
  /\ pc = "done"
  /\ body = <<FirstBookOfTheKings, LineRef13, LineRef12>>
  /\ Len(p.ot) = 1 /\ p.ot[1].name = "1 Kings"
  /\ Len(p.ot[1].chapters) = 1 /\ Len(p.ot[1].chapters[1].verses) = 2

(***************************************************************************)
(* The first suppression test after a discarded title.                     *)
(***************************************************************************)

\* C20: the first suppression test applies only right after a line that was
\* accepted as a header: a Kings title whose preceding non-blank content line
\* was a title that was itself discarded, read while the open book is not a
\* book of Samuel, is accepted: the open book is flushed and the Kings book
\* opens.
C20_AcceptedAfterSuppressed ==
  [][ ( /\ ReadsContentLine
        /\ IsKingsCandidate(line')
        /\ PrevNonBlank(Len(body) + 1) # 0
        /\ IsCandidate(body[PrevNonBlank(Len(body) + 1)])
        /\ ~opened[PrevNonBlank(Len(body) + 1)]
        /\ p.current_book # None
        /\ ~NameContainsSamuel(p.current_book[1].name) )
      => /\ p'.current_book =
              Some([name |-> is_book_line(line')[1].name, chapters |-> <<>>])
         /\ Len(p'.ot) + Len(p'.nt) = Len(p.ot) + Len(p.nt) + 1 ]_vars

(***************************************************************************)
(* Sealed verses, chapters and books.                                      *)
(***************************************************************************)

\* s is an initial part of t
IsPrefix(s, t) == Len(s) <= Len(t) /\ SubSeq(t, 1, Len(s)) = s

\* The verses of a sequence of Chapters, each with its place: the number of
\* its Book in the collection, the number of its Chapter in the Book
RECURSIVE PlacedVerses(_, _, _)
PlacedVerses(chapters, b, c) ==
  IF chapters = <<>> THEN <<>>
  ELSE [v \in 1..Len(Head(chapters).verses) |->
          [book |-> b, chapter |-> c, number |-> Head(chapters).number,
           verse |-> Head(chapters).verses[v]]]
       \o PlacedVerses(Tail(chapters), b, c + 1)

RECURSIVE PlacedBooks(_, _)
PlacedBooks(books, b) ==
  IF books = <<>> THEN <<>>
  ELSE PlacedVerses(Head(books).chapters, b, 1) \o PlacedBooks(Tail(books), b + 1)

\* The verses sealed so far in one testament, in order: those of the Books
\* of the collection, then, when the open book is of this testament, those
\* of its Chapters and of the open chapter
SealedVerses(s, old) ==
  LET coll == IF old THEN s.ot ELSE s.nt
  IN PlacedBooks(coll, 1)
     \o (IF s.current_book # None /\ s.is_ot = old
         THEN PlacedVerses(s.current_book[1].chapters
                             \o (IF s.current_chapter = None THEN <<>>
                                 ELSE <<s.current_chapter[1]>>),
                           Len(coll) + 1, 1)
         ELSE <<>>)

\* C21: what is sealed is never changed: on every step ot and nt grow at the
\* end only, and every Verse that was pushed into a chapter stays what and
\* where it was, in its Chapter of its Book, while the chapter is open,
\* after it was pushed into the book and after the book was pushed into its
\* collection.
C21_SealedNeverMutated ==
  [][ /\ IsPrefix(p.ot, p'.ot)
      /\ IsPrefix(p.nt, p'.nt)
      /\ IsPrefix(SealedVerses(p, TRUE), SealedVerses(p', TRUE))
      /\ IsPrefix(SealedVerses(p, FALSE), SealedVerses(p', FALSE)) ]_vars

\* C21, witness: Hosea with its verse 1:1 is in ot, and the header of
\* Matthew and a reference were read after it was sealed.
C21_Witness ==
  /\ pc = "loop"
  /\ body = <<LineHosea, LineRef11, LineMatthew, LineRef21>>
  /\ Len(p.ot) = 1 /\ p.ot[1].name = "Hosea"
  /\ Len(SealedVerses(p, TRUE)) = 1
  /\ p.current_chapter = Some([number |-> <<"2">>, verses |-> <<>>])

(***************************************************************************)
(* A discarded title.                                                      *)
(***************************************************************************)

\* The step reads a Kings title in a place where one of the two suppression
\* tests discards it: right after a line that opened a Book, or in a book of
\* Samuel before its first reference
ReadsSuppressedTitle ==
  LET n == Len(body) + 1
  IN /\ ReadsContentLine
     /\ IsKingsCandidate(line')
     /\ \/ PrevNonBlank(n) # 0 /\ opened[PrevNonBlank(n)]
        \/ /\ p.current_book # None
           /\ NameContainsSamuel(p.current_book[1].name)
           /\ ~RefBetween(LastOpened(n), n)

\* The step reads a title that opens no Book
ReadsDiscardedTitle ==
  /\ ReadsContentLine
  /\ IsCandidate(line')
  /\ ~OpensBook(p, p')

\* C22: a title discarded by one of the two suppression tests leaves the
\* open book, the open chapter, the open verse with its text, ot and nt as
\* they were: nothing is flushed and the line is not taken as text of the
\* open verse.
C22_DiscardedTitleInert ==
  [][ReadsSuppressedTitle \/ ReadsDiscardedTitle =>
       /\ p'.current_book = p.current_book
       /\ p'.current_chapter = p.current_chapter
       /\ p'.current_verse = p.current_verse
       /\ p'.ot = p.ot
       /\ p'.nt = p.nt]_vars

\* C22, witness: in 1 Samuel, after a line of text, a Kings title was
\* discarded by the second test, and the book is open and empty as before.
C22_Witness ==
  /\ pc = "loop"
  /\ body = <<FirstBookOfSamuel, LineText, FirstBookOfTheKings>>
  /\ opened = <<TRUE, FALSE, FALSE>>
  /\ ~p.last_line_was_book
  /\ p.current_book = Some([name |-> "1 Samuel", chapters |-> <<>>])
  /\ p.current_verse = None
  /\ p.ot = <<>>

(***************************************************************************)
(* The verses of each book.                                                *)
(***************************************************************************)

\* The chapter strings with the verse strings of each, for every Book of a
\* collection
ShapesOf(books) == [b \in 1..Len(books) |-> ShapeOf(books[b])]

\* For every line that opened a Book of a testament, in order, the
\* references recognized from that line up to the next line that opened a
\* Book, one per reference line, grouped under their chapter strings
ExpectedShapes(old) ==
  LET heads == OpenedFrom(1, old)
  IN [k \in 1..Len(heads) |->
        Grouped(RefLinesBetween(heads[k], NextOpened(heads[k])), <<>>, FALSE)]

\* C23: every reference recognized while a book is open gives exactly one
\* Verse of the returned Document, in the Book that was open, and the verses
\* of a Book are in the order of their references; a Chapter has as many
\* verses as references were recognized for it, one per line at most (the
\* first reference token of the line; a later one is text of the verse).
C23_VersesConserved ==
  pc = "done" =>
    /\ ShapesOf(p.ot) = ExpectedShapes(TRUE)
    /\ ShapesOf(p.nt) = ExpectedShapes(FALSE)

\* C23, witness: "1:3 2:1" in Hosea gave the one verse 1:3 with the text
\* "2:1", and the reference after the header of Matthew a verse of Matthew.
C23_Witness ==
  /\ pc = "done"
  /\ body = <<LineHosea, LineTwoRefs, LineMatthew, LineRef11>>
  /\ ShapesOf(p.ot) = << << [number |-> <<"1">>, verses |-> << <<"3">> >>] >> >>
  /\ p.ot[1].chapters[1].verses[1].text = <<"2", ":", "1">>
  /\ ShapesOf(p.nt) = << << [number |-> <<"1">>, verses |-> << <<"1">> >>] >> >>

(***************************************************************************)
(* References before the first book.                                       *)
(***************************************************************************)

\* The number of verses of a sequence of Books
RECURSIVE VerseCount(_)
VerseCount(books) ==
  IF books = <<>> THEN 0
  ELSE Len(PlacedVerses(Head(books).chapters, 1, 1)) + VerseCount(Tail(books))

\* The line of body that opened the first Book (Len(body) + 1: none yet)
FirstOpened == NextOpened(0)

\* References were recognized before the first Book was opened
RefsBeforeFirstBook == RefLinesBetween(0, FirstOpened) # <<>>

\* C24: the references recognized before the first accepted header are in
\* no Book: until a header is accepted ot and nt are empty and no book is
\* open; the first header opens an empty book with no chapter and no verse
\* open; the returned Document holds as many verses as references came
\* after that header, and the first Book those up to the next header.
C24_NoVerseBeforeFirstBook ==
  /\ FirstOpened > Len(body) =>
       p.current_book = None /\ p.ot = <<>> /\ p.nt = <<>>
  /\ pc = "loop" /\ FirstOpened = Len(body) /\ body # <<>> =>
       /\ p.current_book # None /\ p.current_book[1].chapters = <<>>
       /\ p.current_chapter = None
       /\ p.current_verse = None
       /\ p.ot = <<>> /\ p.nt = <<>>
  /\ pc = "done" /\ FirstOpened <= Len(body) =>
       /\ VerseCount(p.ot) + VerseCount(p.nt)
            = Len(RefLinesBetween(FirstOpened, Len(body) + 1))
       /\ LET first == IF is_book_line(body[FirstOpened])[1].is_old_testament
                       THEN p.ot[1] ELSE p.nt[1]
          IN VerseCount(<<first>>)
               = Len(RefLinesBetween(FirstOpened, NextOpened(FirstOpened)))

\* C24, witness: "1:1 In  the" and "God  created" came before the header
\* of Hosea, "beginning. 1:2 And" after it: Hosea has the one verse 1:2.
C24_Witness ==
  /\ pc = "done"
  /\ body = <<LineRef11, LineText, LineHosea, LineRef12>>
  /\ RefsBeforeFirstBook
  /\ ShapesOf(p.ot) = << << [number |-> <<"1">>, verses |-> << <<"2">> >>] >> >>
  /\ p.ot[1].chapters[1].verses[1].text = <<"And">>
  /\ p.nt = <<>>

(***************************************************************************)
(* The first reference of a book.                                          *)
(***************************************************************************)

\* The step reads the first reference line after the line that opened the
\* open book
ReadsFirstRefOfBook ==
  LET n == Len(body) + 1
  IN /\ ReadsContentLine
     /\ IsRefLine(line')
     /\ LastOpened(n) # 0
     /\ ~RefBetween(LastOpened(n), n)

\* The verses the open book holds so far, the open one included, are as
\* many as the reference lines read since the line that opened it
OpenBookHoldsOwnVerses ==
  pc = "loop" /\ p.current_book # None =>
    LET n == Len(body) + 1
        chapters == p.current_book[1].chapters
                      \o (IF p.current_chapter = None THEN <<>>
                          ELSE <<p.current_chapter[1]>>)
    IN Len(PlacedVerses(chapters, 1, 1))
         + (IF p.current_verse = None THEN 0 ELSE 1)
       = Len(RefLinesBetween(LastOpened(n), n))

\* C25: the first reference recognized after an accepted header opens a new
\* Chapter, empty and in the new book, whatever its chapter number, also
\* when it is the number of the last chapter of the book before; the open
\* chapter never holds a verse recognized before the header of the open book.
C25_FirstRefOpensChapter ==
  /\ []OpenBookHoldsOwnVerses
  /\ [][ReadsFirstRefOfBook =>
          /\ p.current_chapter = None
          /\ p'.current_chapter =
               Some([number |-> RefChapter(SplitWhitespace(Trim(line'))
                                             [FirstRef(SplitWhitespace(Trim(line')))]),
                     verses |-> <<>>])
          /\ p'.current_book # None
          /\ p'.current_book[1].chapters = <<>>
          /\ p'.ot = p.ot /\ p'.nt = p.nt]_vars

\* C25, witness: Hosea ended with chapter 1, and "1:1 In  the" after the
\* header of Matthew opened a chapter 1 of Matthew, empty, while the chapter
\* 1 of Hosea is sealed with its one verse.
C25_Witness ==
  /\ pc = "loop"
  /\ body = <<LineHosea, LineRef11, LineMatthew, LineRef11>>
  /\ ShapesOf(p.ot) = << << [number |-> <<"1">>, verses |-> << <<"1">> >>] >> >>
  /\ p.current_book = Some([name |-> "Matthew", chapters |-> <<>>])
  /\ p.current_chapter = Some([number |-> <<"1">>, verses |-> <<>>])

(***************************************************************************)
(* The table of contents as the gate of the content section.               *)
(***************************************************************************)

\* No Book, Chapter or Verse exists in state s
NothingParsed(s) ==
  /\ s.current_book = None
  /\ s.current_chapter = None
  /\ s.current_verse = None
  /\ s.ot = <<>>
  /\ s.nt = <<>>

\* Both contents lists have their full count
TocCounted(s) ==
  Len(s.ot_contents) = OtTocCount /\ Len(s.nt_contents) = NtTocCount

\* C26: the content section is gated by the table of contents: whenever
\* in_content is true ot_contents has 39 entries and nt_contents 27; once
\* both counts are reached the two lists are never changed; and while
\* in_content is false no Book, Chapter or Verse exists, the title lines
\* read then extending the contents lists only.
C26_ContentGatedByToc ==
  /\ [](p.in_content => TocCounted(p))
  /\ [](~p.in_content => NothingParsed(p))
  /\ [][TocCounted(p) =>
          /\ p'.ot_contents = p.ot_contents
          /\ p'.nt_contents = p.nt_contents]_vars
  /\ [][pc = "loop" /\ pc' = "loop" /\ ~p'.in_content /\ p' # p =>
          /\ IsPrefix(p.ot_contents, p'.ot_contents)
          /\ IsPrefix(p.nt_contents, p'.nt_contents)
          /\ NothingParsed(p')]_vars

\* C26, witness: the content section was entered with the 39 and 27 titles
\* listed, and a header and a reference read there opened a Book, a Chapter
\* and a Verse; the lists are as they were.
C26_Witness ==
  /\ pc = "loop"
  /\ p.in_content
  /\ body = <<LineHosea, LineRef11>>
  /\ p.ot_contents = OtNames
  /\ p.nt_contents = NtNames
  /\ p.current_book # None /\ p.current_chapter # None /\ p.current_verse # None
=============================================================================
